---- MODULE Spec2Model ----
(***************************************************************************)
(* Model of the dharmaseed transcription pipeline (src/main.py).           *)
(*                                                                         *)
(* Strings that the program manipulates character by character (talk       *)
(* titles, transcription job names) are sequences of one-character         *)
(* strings.  The sqlite tables, the two S3 buckets and the job namespace   *)
(* of the transcription service are the shared state; every orchestrator   *)
(* process p has its own program counter and local variables.              *)
(***************************************************************************)
EXTENDS Integers, Sequences, FiniteSets, TLC

\* ----------------------------------------------------------------------
\* Bounds of the model
\* ----------------------------------------------------------------------
\* number of jobs the transcription service holds before the model stops
\* starting invocations
MaxJobs == 3
\* number of get_transcription_job calls one await_transcription_job may make
MaxPolls == 4

Procs == {1, 2}
Guids == {"g1", "g2"}
Texts == {"Welcome everyone.", "hello world"}
Reasons == {"bad media"}

\* ----------------------------------------------------------------------
\* Strings
\* ----------------------------------------------------------------------
\* characters matched by \w in the titles of the model
WordChars ==
  {"M", "o", "r", "n", "i", "g", "T", "a", "l", "k", "b", "0", "1", "2",
   "3", "4", "5", "6", "7", "8", "9", "_"}

T_Morning ==
  <<"M", "o", "r", "n", "i", "n", "g", " ", "T", "a", "l", "k", " ", "#",
    "1", "!">>
T_ab == <<"a", "_", "b">>
T_a1 == <<"a", "_", "1">>
T_bang == <<"!", "!">>

\* re.sub(r"\W+", "", title): every run of non-word characters is removed
Sanitize(title) == SelectSeq(title, LAMBDA c : c \in WordChars)

DigitChar == <<"0", "1", "2", "3", "4", "5", "6", "7", "8", "9">>

\* str(i) for a non-negative integer
RECURSIVE Str(_)
Str(n) ==
  IF n < 10 THEN <<DigitChar[n + 1]>>
  ELSE Str(n \div 10) \o <<DigitChar[(n % 10) + 1]>>

\* s.split(sep): the segments between the separators, at least one segment
RECURSIVE Split(_, _)
Split(s, sep) ==
  IF \A k \in 1..Len(s) : s[k] # sep THEN <<s>>
  ELSE LET k == CHOOSE k \in 1..Len(s) :
                  s[k] = sep /\ \A j \in 1..(k - 1) : s[j] # sep
       IN <<SubSeq(s, 1, k - 1)>> \o Split(SubSeq(s, k + 1, Len(s)), sep)

\* sep.join(l)
RECURSIVE Join(_, _)
Join(l, sep) ==
  IF l = <<>> THEN <<>>
  ELSE IF Len(l) = 1 THEN l[1]
  ELSE l[1] \o <<sep>> \o Join(Tail(l), sep)

\* l[:-1]
DropLast(l) == SubSeq(l, 1, Len(l) - 1)

\* the job name tried after a ConflictException (line 108)
NextJobName(job_name, i) ==
  Join(DropLast(Split(job_name, "_")), "_") \o <<"_">> \o Str(i)

\* ----------------------------------------------------------------------
\* State
\* ----------------------------------------------------------------------
VARIABLES
  talks,           \* table talks: rows [guid, title]
  transcriptions,  \* table transcriptions: rows [guid, transcription], in
                   \* insertion order
  audio,           \* keys of bucket rs-dharma-audio
  output,          \* objects [key, body] of bucket rs-dharma-transcriptions
                   \* (key g stands for g + "_standard")
  jobs,            \* jobs of the transcription service:
                   \* [name, guid, status, reason]
  procs,           \* the orchestrator processes that exist
  pc,              \* per process: where it is in the program
  guid,            \* per process: guid selected by download_one_new_talk
  job_name,        \* per process: job_name of transcribe_talk
  i,               \* per process: i of transcribe_talk
  status,          \* per process: status of await_transcription_job
  submitted,       \* per process: start_transcription_job calls of the
                   \* invocation, [name, reply]
  polled,          \* per process: get_transcription_job calls of the
                   \* invocation, [name, status]
  awaited,         \* per process: what await_transcription_job returned
  logged,          \* per process: failure reasons written by logging.error
  extractions,     \* per process: download_transcription calls begun
  written,         \* per process: rows appended by the invocation
  outcome          \* per process: how the invocation ended

shared == <<talks, transcriptions, audio, output, jobs, procs>>
locals ==
  <<pc, guid, job_name, i, status, submitted, polled, awaited, logged,
    extractions, written, outcome>>
vars == <<shared, locals>>

\* the output documents a job can leave: results.transcripts is a list
Docs ==
  {[transcripts |-> <<>>]} \cup {[transcripts |-> <<t>>] : t \in Texts}

Terminal == {"FAILED", "COMPLETED"}

\* await_transcription_job has not returned
NotReturned == [value |-> "notreturned", reason |-> ""]

Row(g, title) == [guid |-> g, title |-> title]

\* the catalogs the model starts from: no talk, or one talk
Catalogs ==
  { {},
    {Row("g1", T_Morning)},
    {Row("g1", T_ab)},
    {Row("g1", T_a1)},
    {Row("g1", T_bang)} }

\* catalogs of two talks: with the same title, and with titles whose job
\* names differ
Catalogs2 ==
  { {Row("g1", T_Morning), Row("g2", T_Morning)},
    {Row("g1", T_ab), Row("g2", T_a1)} }

\* select title from talks where guid = g
TitleOf(g) == (CHOOSE r \in talks : r.guid = g).title

\* a selection query that leaves out the talks another process is working
\* on
Pending_Unclaimed ==
  {r.guid : r \in {t \in talks :
     /\ \A k \in 1..Len(transcriptions) : transcriptions[k].guid # t.guid
     /\ \A q \in procs : pc[q] = "idle" \/ guid[q] # t.guid}}

\* a selection query without the join: every talk is selected
Pending_AllTalks == {r.guid : r \in talks}

\* the selection query of download_one_new_talk: guids of talks with no
\* joined row whose transcription is not null (the texts of the model are
\* never null)
Pending ==
  {r.guid : r \in {t \in talks :
     \A k \in 1..Len(transcriptions) : transcriptions[k].guid # t.guid}}

JobNames == {j.name : j \in jobs}
JobNamed(n) == CHOOSE j \in jobs : j.name = n

\* Both tables exist (the schema is created outside main.py's pipeline),
\* nothing is transcribed or staged yet and the service holds no job.
Init ==
  /\ talks \in Catalogs
  /\ transcriptions = <<>>
  /\ audio = {}
  /\ output = {}
  /\ jobs = {}
  /\ procs = {1}
  /\ pc = [p \in Procs |-> "idle"]
  /\ guid = [p \in Procs |-> "none"]
  /\ job_name = [p \in Procs |-> <<>>]
  /\ i = [p \in Procs |-> 1]
  /\ status = [p \in Procs |-> ""]
  /\ submitted = [p \in Procs |-> <<>>]
  /\ polled = [p \in Procs |-> <<>>]
  /\ awaited = [p \in Procs |-> NotReturned]
  /\ logged = [p \in Procs |-> <<>>]
  /\ extractions = [p \in Procs |-> 0]
  /\ written = [p \in Procs |-> <<>>]
  /\ outcome = [p \in Procs |-> "none"]

\* the same, for the given catalogs and processes, with the service
\* holding one of the given sets of jobs
InitOf(catalogs, processes, left) ==
  /\ talks \in catalogs
  /\ transcriptions = <<>>
  /\ audio = {}
  /\ output = {}
  /\ jobs \in left
  /\ procs = processes
  /\ pc = [p \in Procs |-> "idle"]
  /\ guid = [p \in Procs |-> "none"]
  /\ job_name = [p \in Procs |-> <<>>]
  /\ i = [p \in Procs |-> 1]
  /\ status = [p \in Procs |-> ""]
  /\ submitted = [p \in Procs |-> <<>>]
  /\ polled = [p \in Procs |-> <<>>]
  /\ awaited = [p \in Procs |-> NotReturned]
  /\ logged = [p \in Procs |-> <<>>]
  /\ extractions = [p \in Procs |-> 0]
  /\ written = [p \in Procs |-> <<>>]
  /\ outcome = [p \in Procs |-> "none"]

\* ----------------------------------------------------------------------
\* download_one_new_talk, lines 164-173: the selection query
\* ----------------------------------------------------------------------
\* the locals of a fresh invocation
Fresh(p, g, where, how) ==
  /\ guid' = [guid EXCEPT ![p] = g]
  /\ pc' = [pc EXCEPT ![p] = where]
  /\ outcome' = [outcome EXCEPT ![p] = how]
  /\ job_name' = [job_name EXCEPT ![p] = <<>>]
  /\ i' = [i EXCEPT ![p] = 1]
  /\ status' = [status EXCEPT ![p] = ""]
  /\ submitted' = [submitted EXCEPT ![p] = <<>>]
  /\ polled' = [polled EXCEPT ![p] = <<>>]
  /\ awaited' = [awaited EXCEPT ![p] = NotReturned]
  /\ logged' = [logged EXCEPT ![p] = <<>>]
  /\ extractions' = [extractions EXCEPT ![p] = 0]
  /\ written' = [written EXCEPT ![p] = <<>>]
  /\ UNCHANGED <<talks, transcriptions, audio, output, jobs, procs>>

\* fetchone() returns a row: its guid is handed to
\* save_transcription_from_talk
Selects(p, g) ==
  /\ pc[p] = "idle"
  /\ Cardinality(jobs) < MaxJobs
  /\ g \in Pending
  /\ Fresh(p, g, "upload", "running")

SelectPending(p) == \E g \in Guids : Selects(p, g)

\* fetchone() returns None and None[0] raises TypeError
SelectNothing(p) ==
  /\ pc[p] = "idle"
  /\ Cardinality(jobs) < MaxJobs
  /\ Pending = {}
  /\ Fresh(p, "none", "idle", "TypeError")

\* an exception leaves the invocation
Raise(p, error) ==
  /\ pc' = [pc EXCEPT ![p] = "idle"]
  /\ outcome' = [outcome EXCEPT ![p] = error]

\* ----------------------------------------------------------------------
\* upload_talk_audio, lines 70-84
\* ----------------------------------------------------------------------
\* a save_transcription_from_talk that goes on to transcribe_talk without
\* the upload having been made
UploadTalkAudio_NotStaged(p) ==
  /\ pc[p] = "upload"
  /\ job_name' = [job_name EXCEPT ![p] = Sanitize(TitleOf(guid[p]))]
  /\ i' = [i EXCEPT ![p] = 1]
  /\ pc' = [pc EXCEPT ![p] = "transcribe"]
  /\ UNCHANGED <<shared, guid, status, submitted, polled, awaited, logged,
                 extractions, written, outcome>>

\* the upload succeeds; save_transcription_from_talk goes on to
\* transcribe_talk, which sets job_name and i (lines 94-96)
UploadTalkAudio(p) ==
  /\ pc[p] = "upload"
  /\ audio' = audio \cup {guid[p]}
  /\ job_name' = [job_name EXCEPT ![p] = Sanitize(TitleOf(guid[p]))]
  /\ i' = [i EXCEPT ![p] = 1]
  /\ pc' = [pc EXCEPT ![p] = "transcribe"]
  /\ UNCHANGED <<talks, transcriptions, output, jobs, procs, guid,
                 status, submitted, polled, awaited, logged, extractions,
                 written, outcome>>

\* requests.get or upload_fileobj raises
UploadFails(p) ==
  /\ pc[p] = "upload"
  /\ Raise(p, "TransferError")
  /\ UNCHANGED <<shared, guid, job_name, i, status, submitted, polled,
                 awaited, logged, extractions, written>>

\* ----------------------------------------------------------------------
\* transcribe_talk, lines 97-111: one pass of the while loop
\* ----------------------------------------------------------------------
Submit(p, reply) ==
  submitted' =
    [submitted EXCEPT ![p] = Append(@, [name |-> job_name[p], reply |-> reply])]

\* a transcribe_talk that returns the first candidate instead of job_name
Returned_FirstCandidate(p) == Sanitize(TitleOf(guid[p]))

\* the name transcribe_talk returns (line 111) and
\* save_transcription_from_talk hands to await_transcription_job (line 66)
Returned(p) == job_name[p]

\* a transcribe_talk that does not set job_created: the loop goes on
\* after the job was created
StartJobAccepted_LoopsOn(p) ==
  /\ pc[p] = "transcribe"
  /\ job_name[p] # <<>>
  /\ job_name[p] \notin JobNames
  /\ jobs' = jobs \cup {[name |-> job_name[p], guid |-> guid[p],
                         status |-> "SUBMITTED", reason |-> ""]}
  /\ Submit(p, "ok")
  /\ UNCHANGED <<talks, transcriptions, audio, output, procs, pc, guid,
                 job_name, i, status, polled, awaited, logged, extractions,
                 written, outcome>>

\* the service creates the job; job_created ends the loop, the name is
\* returned and await_transcription_job starts with status = "" (line 121)
StartJobAccepted(p) ==
  /\ pc[p] = "transcribe"
  /\ job_name[p] # <<>>
  /\ job_name[p] \notin JobNames
  /\ jobs' = jobs \cup {[name |-> job_name[p], guid |-> guid[p],
                         status |-> "SUBMITTED", reason |-> ""]}
  /\ Submit(p, "ok")
  /\ job_name' = [job_name EXCEPT ![p] = Returned(p)]
  /\ status' = [status EXCEPT ![p] = ""]
  /\ pc' = [pc EXCEPT ![p] = "await"]
  /\ UNCHANGED <<talks, transcriptions, audio, output, procs, guid,
                 i, polled, awaited, logged, extractions, written, outcome>>

\* a transcribe_talk whose except clause does nothing: the same name is
\* submitted again
StartJobConflict_Ignored(p) ==
  /\ pc[p] = "transcribe"
  /\ job_name[p] \in JobNames
  /\ UNCHANGED vars

\* a transcribe_talk that does not catch ConflictException
StartJobConflict_Raised(p) ==
  /\ pc[p] = "transcribe"
  /\ job_name[p] \in JobNames
  /\ Submit(p, "conflict")
  /\ Raise(p, "SubmissionError")
  /\ UNCHANGED <<shared, guid, job_name, i, status, polled, awaited,
                 logged, extractions, written>>

\* ConflictException: the name is taken; lines 108-109
StartJobConflict(p) ==
  /\ pc[p] = "transcribe"
  /\ job_name[p] \in JobNames
  /\ Submit(p, "conflict")
  /\ job_name' = [job_name EXCEPT ![p] = NextJobName(job_name[p], i[p])]
  /\ i' = [i EXCEPT ![p] = i[p] + 1]
  /\ UNCHANGED <<shared, pc, guid, status, polled, awaited, logged,
                 extractions, written, outcome>>

\* a transcribe_talk that catches every exception as if it were a conflict
StartJobFails_Retried(p) ==
  /\ pc[p] = "transcribe"
  /\ Submit(p, "error")
  /\ job_name' = [job_name EXCEPT ![p] = NextJobName(job_name[p], i[p])]
  /\ i' = [i EXCEPT ![p] = i[p] + 1]
  /\ UNCHANGED <<shared, pc, guid, status, polled, awaited, logged,
                 extractions, written, outcome>>

\* any other exception of start_transcription_job (an empty name is
\* rejected by the parameter validation) is not caught
StartJobFails(p) ==
  /\ pc[p] = "transcribe"
  /\ Submit(p, "error")
  /\ Raise(p, "SubmissionError")
  /\ UNCHANGED <<shared, guid, job_name, i, status, polled, awaited,
                 logged, extractions, written>>

\* ----------------------------------------------------------------------
\* await_transcription_job, lines 120-132: one pass of the while loop
\* ----------------------------------------------------------------------
\* await_transcription_job has no return statement: it returns None, with
\* nothing attached, whatever the terminal status of the job
AwaitResult(job) == [value |-> "None", reason |-> ""]

\* a loop that only COMPLETED ends
KeepPolling_UntilCompleted(st) == st # "COMPLETED"

\* the loop condition of line 122
KeepPolling(st) == st \notin {"FAILED", "COMPLETED"}

\* get_transcription_job answers with the job's status; the loop is left on
\* a terminal status, a FAILED one is logged with its reason, and the
\* function returns None either way
Poll(p) ==
  /\ pc[p] = "await"
  /\ KeepPolling(status[p])
  /\ Len(polled[p]) < MaxPolls
  /\ job_name[p] \in JobNames
  /\ LET job == JobNamed(job_name[p])
     IN /\ status' = [status EXCEPT ![p] = job.status]
        /\ polled' = [polled EXCEPT ![p] =
                        Append(@, [name |-> job_name[p],
                                   status |-> job.status])]
        /\ IF KeepPolling(job.status)
           THEN UNCHANGED <<pc, awaited, logged>>
           ELSE /\ pc' = [pc EXCEPT ![p] = "download1"]
                /\ awaited' = [awaited EXCEPT ![p] = AwaitResult(job)]
                /\ logged' = [logged EXCEPT ![p] =
                                IF job.status = "FAILED"
                                THEN Append(@, job.reason) ELSE @]
  /\ UNCHANGED <<shared, guid, job_name, i, submitted, extractions,
                 written, outcome>>

\* get_transcription_job raises (no such job, or the service is unreachable)
PollFails(p) ==
  /\ pc[p] = "await"
  /\ Raise(p, "PollError")
  /\ UNCHANGED <<shared, guid, job_name, i, status, submitted, polled,
                 awaited, logged, extractions, written>>

\* ----------------------------------------------------------------------
\* download_transcription, lines 143-159; called at line 67 (pc download1)
\* and again at line 175 (pc download2)
\* ----------------------------------------------------------------------
Downloading(p) == pc[p] \in {"download1", "download2"}

\* json.loads(...)["results"]["transcripts"][0]["transcript"], line 151
WellFormed(doc) == Len(doc.transcripts) >= 1
Transcript(doc) == doc.transcripts[1]

\* df.to_sql("transcriptions", conn, if_exists="append"), line 158
ToSqlAppend(table, row) == Append(table, row)

\* a download_transcription that swallows the download error and saves an
\* empty transcript
DownloadFails_SavesEmpty(p) ==
  /\ Downloading(p)
  /\ extractions' = [extractions EXCEPT ![p] = @ + 1]
  /\ LET row == [guid |-> guid[p], transcription |-> ""]
     IN /\ transcriptions' = ToSqlAppend(transcriptions, row)
        /\ written' = [written EXCEPT ![p] = Append(@, row)]
  /\ Raise(p, "DownloadError")
  /\ UNCHANGED <<talks, audio, output, jobs, procs, guid, job_name, i,
                 status, submitted, polled, awaited, logged>>

\* s3.download_file raises: there is no object under the key, or the
\* transfer fails
DownloadFails(p) ==
  /\ Downloading(p)
  /\ extractions' = [extractions EXCEPT ![p] = @ + 1]
  /\ Raise(p, "DownloadError")
  /\ UNCHANGED <<shared, guid, job_name, i, status, submitted, polled,
                 awaited, logged, written>>

\* a download_transcription that reads a missing transcript as empty text
\* and saves it
DownloadMalformed_SavesEmpty(p) ==
  /\ Downloading(p)
  /\ \E o \in output : o.key = guid[p] /\ ~WellFormed(o.body)
  /\ extractions' = [extractions EXCEPT ![p] = @ + 1]
  /\ LET row == [guid |-> guid[p], transcription |-> ""]
     IN /\ transcriptions' = ToSqlAppend(transcriptions, row)
        /\ written' = [written EXCEPT ![p] = Append(@, row)]
  /\ Raise(p, "MalformedResult")
  /\ UNCHANGED <<talks, audio, output, jobs, procs, guid, job_name, i,
                 status, submitted, polled, awaited, logged>>

\* the document has no first transcript: line 151 raises
DownloadMalformed(p) ==
  /\ Downloading(p)
  /\ \E o \in output : o.key = guid[p] /\ ~WellFormed(o.body)
  /\ extractions' = [extractions EXCEPT ![p] = @ + 1]
  /\ Raise(p, "MalformedResult")
  /\ UNCHANGED <<shared, guid, job_name, i, status, submitted, polled,
                 awaited, logged, written>>

\* the transcript is read and its row appended
DownloadSaves(p) ==
  /\ Downloading(p)
  /\ \E o \in output :
       /\ o.key = guid[p]
       /\ WellFormed(o.body)
       /\ LET row == [guid |-> guid[p], transcription |-> Transcript(o.body)]
          IN /\ transcriptions' = ToSqlAppend(transcriptions, row)
             /\ written' = [written EXCEPT ![p] = Append(@, row)]
  /\ extractions' = [extractions EXCEPT ![p] = @ + 1]
  /\ IF pc[p] = "download1"
     THEN /\ pc' = [pc EXCEPT ![p] = "download2"]
          /\ UNCHANGED outcome
     ELSE /\ pc' = [pc EXCEPT ![p] = "idle"]
          /\ outcome' = [outcome EXCEPT ![p] = "ok"]
  /\ UNCHANGED <<talks, audio, output, jobs, procs, guid, job_name,
                 i, status, submitted, polled, awaited, logged>>

\* the process is stopped in the middle of an invocation
Interrupt(p) ==
  /\ pc[p] # "idle"
  /\ Raise(p, "interrupted")
  /\ UNCHANGED <<shared, guid, job_name, i, status, submitted, polled,
                 awaited, logged, extractions, written>>

\* ----------------------------------------------------------------------
\* The transcription service: a job goes
\* SUBMITTED -> (QUEUED ->) IN_PROGRESS -> COMPLETED | FAILED
\* and a completed job puts its document under OutputKey (lines 103-104)
\* ----------------------------------------------------------------------
SetJob(j, st, why) ==
  jobs' = (jobs \ {j}) \cup {[j EXCEPT !.status = st, !.reason = why]}

JobProgresses(j) ==
  /\ \/ j.status = "SUBMITTED" /\ SetJob(j, "QUEUED", "")
     \/ j.status \in {"SUBMITTED", "QUEUED"} /\ SetJob(j, "IN_PROGRESS", "")
  /\ UNCHANGED <<talks, transcriptions, audio, output, procs, locals>>

JobCompletes(j, doc) ==
  /\ j.status = "IN_PROGRESS"
  /\ SetJob(j, "COMPLETED", "")
  /\ output' = {o \in output : o.key # j.guid}
                 \cup {[key |-> j.guid, body |-> doc]}
  /\ UNCHANGED <<talks, transcriptions, audio, procs, locals>>

JobFails(j, why) ==
  /\ j.status = "IN_PROGRESS"
  /\ SetJob(j, "FAILED", why)
  /\ UNCHANGED <<talks, transcriptions, audio, output, procs, locals>>

\* ----------------------------------------------------------------------
Next ==
  \/ \E p \in procs : SelectPending(p)
  \/ \E p \in procs : SelectNothing(p)
  \/ \E p \in procs : UploadTalkAudio(p)
  \/ \E p \in procs : UploadFails(p)
  \/ \E p \in procs : StartJobAccepted(p)
  \/ \E p \in procs : StartJobConflict(p)
  \/ \E p \in procs : StartJobFails(p)
  \/ \E p \in procs : Poll(p)
  \/ \E p \in procs : PollFails(p)
  \/ \E p \in procs : DownloadFails(p)
  \/ \E p \in procs : DownloadMalformed(p)
  \/ \E p \in procs : DownloadSaves(p)
  \/ \E p \in procs : Interrupt(p)
  \/ \E j \in jobs : JobProgresses(j)
  \/ \E j \in jobs, doc \in Docs : JobCompletes(j, doc)
  \/ \E j \in jobs, why \in Reasons : JobFails(j, why)

Spec == Init /\ [][Next]_vars

\* the name transcribe_talk submits for a title after k conflicts
RECURSIVE Candidate(_, _)
Candidate(title, k) ==
  IF k = 0 THEN Sanitize(title)
  ELSE NextJobName(Candidate(title, k - 1), k)

\* names that jobs left in the service by earlier invocations can have
TakenPool ==
  {Candidate(t, k) : t \in {T_Morning, T_ab, T_a1, T_bang},
                     k \in 0..MaxJobs} \ {<<>>}

\* a job of an earlier catalog's talk, long finished
LeftJob(n) ==
  [name |-> n, guid |-> "g2", status |-> "FAILED", reason |-> "bad media"]

LeftJobs ==
  {{LeftJob(n) : n \in taken} :
     taken \in {t \in SUBSET TakenPool : Cardinality(t) < MaxJobs}}

\* transcribe_talk alone: one invocation up to the return of
\* transcribe_talk, against a set of taken names that nothing else
\* extends, with start_transcription_job raising nothing but
\* ConflictException.  The loop of a running process keeps running.
NextSubmit ==
  \/ \E p \in procs : SelectPending(p)
  \/ \E p \in procs : UploadTalkAudio(p)
  \/ \E p \in procs : StartJobAccepted(p)
  \/ \E p \in procs : StartJobConflict(p)

SubmitStep == \E p \in procs : StartJobAccepted(p) \/ StartJobConflict(p)

SpecSubmit ==
  /\ InitOf(Catalogs, {1}, LeftJobs)
  /\ [][NextSubmit]_vars
  /\ WF_vars(SubmitStep)

\* await_transcription_job alone: one invocation up to the return of
\* await_transcription_job, with a service that answers every call and may
\* or may not bring the job to an end.  The loop of a running process
\* keeps running; nothing is assumed of the service.
NextWatch ==
  \/ \E p \in procs : SelectPending(p)
  \/ \E p \in procs : UploadTalkAudio(p)
  \/ \E p \in procs : StartJobAccepted(p)
  \/ \E p \in procs : Poll(p)
  \/ \E j \in jobs : JobProgresses(j)
  \/ \E j \in jobs, doc \in Docs : JobCompletes(j, doc)
  \/ \E j \in jobs, why \in Reasons : JobFails(j, why)

PollStep == \E p \in procs : Poll(p)

SpecWatch ==
  /\ InitOf(Catalogs, {1}, {{}})
  /\ [][NextWatch]_vars
  /\ WF_vars(PollStep)

\* One process and a catalog of two talks, in runs where every stage of
\* every invocation succeeds: the upload, the submission (conflicts
\* included), the polls and both extractions.
NextAllSucceed ==
  \/ \E p \in procs : SelectPending(p)
  \/ \E p \in procs : UploadTalkAudio(p)
  \/ \E p \in procs : StartJobAccepted(p)
  \/ \E p \in procs : StartJobConflict(p)
  \/ \E p \in procs : Poll(p)
  \/ \E p \in procs : DownloadSaves(p)
  \/ \E j \in jobs : JobProgresses(j)
  \/ \E j \in jobs, doc \in Docs : JobCompletes(j, doc)

SpecAllSucceed == InitOf(Catalogs2, {1}, {{}}) /\ [][NextAllSucceed]_vars

\* Two processes on the same database and services, in runs where every
\* stage succeeds.
SpecTwoProcs == InitOf(Catalogs, {1, 2}, {{}}) /\ [][NextAllSucceed]_vars

\* ----------------------------------------------------------------------
\* Properties
\* ----------------------------------------------------------------------
\* the rows of transcriptions for guid g
RowsOf(g) == {k \in 1..Len(transcriptions) : transcriptions[k].guid = g}

\* the replies and the names of the start_transcription_job calls of p
Replies(p) == [k \in 1..Len(submitted[p]) |-> submitted[p][k].reply]
Names(p) == [k \in 1..Len(submitted[p]) |-> submitted[p][k].name]

\* the statuses get_transcription_job answered to p
Statuses(p) == [k \in 1..Len(polled[p]) |-> polled[p][k].status]

\* C1: in every reachable state the transcriptions table holds at most one
\* row per catalog guid.
C1_OneRowPerGuid == \A g \in Guids : Cardinality(RowsOf(g)) <= 1

\* C2: an invocation that ends successfully after its job reached COMPLETED
\* has appended exactly one row, keyed by the selected guid, whose text is
\* the transcript field of the output document.
C2_SuccessAddsOneRow ==
  \A p \in procs :
    (outcome[p] = "ok" /\ status[p] = "COMPLETED") =>
      /\ Len(written[p]) = 1
      /\ written[p][1].guid = guid[p]
      /\ \E o \in output :
           /\ o.key = guid[p]
           /\ WellFormed(o.body)
           /\ written[p][1].transcription = Transcript(o.body)

\* C3: an invocation that ends with a staging error, a non-conflict
\* submission error or a failed result extraction has written no row, and
\* its item is still pending.
C3_FailedStageWritesNothing ==
  \A p \in procs :
    outcome[p] \in {"TransferError", "SubmissionError", "DownloadError",
                    "MalformedResult"} =>
      /\ written[p] = <<>>
      /\ guid[p] \in Pending

\* C4: once the watcher has seen FAILED, the invocation performs no result
\* extraction and writes no row.
C4_FailedJobHalts ==
  \A p \in procs :
    status[p] = "FAILED" => extractions[p] = 0 /\ written[p] = <<>>

\* an invocation of p whose selection query found nothing has ended
SelectedNothing(p) == guid[p] = "none" /\ outcome[p] # "none"

\* C5: when the selection query finds no pending item the invocation ends
\* with the normal NoPendingWork outcome and has staged, submitted, polled
\* and written nothing.
C5_NoPendingIsNormal ==
  \A p \in procs :
    SelectedNothing(p) =>
      /\ outcome[p] = "NoPendingWork"
      /\ submitted[p] = <<>>
      /\ polled[p] = <<>>
      /\ written[p] = <<>>

\* C6: the persistence step of download_transcription, reached for a guid
\* that already has a row, fails with AlreadyExists and leaves the table
\* unchanged.
C6_SecondWriteRejected ==
  [][\A p \in procs :
       (DownloadSaves(p) /\ RowsOf(guid[p]) # {}) =>
         /\ transcriptions' = transcriptions
         /\ outcome'[p] = "AlreadyExists"]_vars

\* a name with its trailing _<suffix> segment removed, if it has one
WithoutSuffix(name) ==
  IF \E k \in 1..Len(name) : name[k] = "_"
  THEN Join(DropLast(Split(name, "_")), "_")
  ELSE name

\* C7: the first name submitted is the sanitized title, and the name
\* submitted after the k-th conflict is the previous one without its
\* trailing _<suffix> segment, followed by _k; the name kept after the
\* accepted call is the one that was accepted.
C7_ConflictNames ==
  \A p \in procs :
    /\ Len(submitted[p]) >= 1 =>
         Names(p)[1] = Sanitize(TitleOf(guid[p]))
    /\ \A k \in 1..(Len(submitted[p]) - 1) :
         /\ Replies(p)[k] = "conflict"
         /\ Names(p)[k + 1] = WithoutSuffix(Names(p)[k]) \o <<"_">> \o Str(k)
    /\ (Len(submitted[p]) >= 1 /\ Replies(p)[Len(submitted[p])] = "ok") =>
         job_name[p] = Names(p)[Len(submitted[p])]

\* C8: await_transcription_job has returned exactly when the last status it
\* polled is COMPLETED or FAILED, no earlier status it polled is terminal,
\* and a non-terminal status is never the cause of an error.
C8_AwaitReturnsAtFirstTerminal ==
  \A p \in procs :
    LET n == Len(polled[p])
    IN /\ \A k \in 1..(n - 1) : Statuses(p)[k] \notin Terminal
       /\ (awaited[p] # NotReturned) <=> (n >= 1 /\ Statuses(p)[n] \in Terminal)
       /\ (n >= 1 /\ Statuses(p)[n] \notin Terminal) =>
            /\ outcome[p] \in {"running", "PollError", "interrupted"}
            /\ outcome[p] = "running" => pc[p] = "await"

\* the statuses of the example: four polls, the fourth one terminal
C8_FourPolls ==
  \E p \in procs :
    /\ Statuses(p) = <<"SUBMITTED", "IN_PROGRESS", "IN_PROGRESS", "COMPLETED">>
    /\ awaited[p] # NotReturned
    /\ pc[p] = "download1"

\* C9: for a FAILED job await_transcription_job returns the outcome Failed
\* with the failure reason attached.
C9_FailedOutcomeReturned ==
  \A p \in procs :
    (status[p] = "FAILED" /\ awaited[p] # NotReturned) =>
      /\ awaited[p].value = "Failed"
      /\ awaited[p].reason \in Reasons

\* C10: after the service accepted a start_transcription_job call, job_name
\* is the name of that call, no conflict was reported for it in the
\* invocation, and it is the only name polled.
C10_ReturnedNameIsAccepted ==
  \A p \in procs :
    LET n == Len(submitted[p])
    IN /\ (n >= 1 /\ Replies(p)[n] = "ok") =>
            /\ job_name[p] = Names(p)[n]
            /\ \A k \in 1..(n - 1) :
                 Replies(p)[k] = "conflict" => Names(p)[k] # job_name[p]
            /\ \E j \in jobs : j.name = job_name[p] /\ j.guid = guid[p]
       /\ \A k \in 1..Len(polled[p]) :
            /\ n >= 1
            /\ Replies(p)[n] = "ok"
            /\ polled[p][k].name = Names(p)[n]

\* a name accepted after two conflicts is being polled
C10_PolledAfterConflicts ==
  \E p \in procs :
    /\ Replies(p) = <<"conflict", "conflict", "ok">>
    /\ Len(polled[p]) >= 1
    /\ pc[p] = "await"

\* C11: a start_transcription_job error other than a conflict is the last
\* call of the invocation: the invocation ends with that error, with no
\* poll, no extraction and no row written, and every call that was followed
\* by another one had been answered with a conflict.
C11_SubmissionErrorIsFatal ==
  \A p \in procs :
    \A k \in 1..Len(submitted[p]) :
      /\ k < Len(submitted[p]) => Replies(p)[k] = "conflict"
      /\ Replies(p)[k] = "error" =>
           /\ k = Len(submitted[p])
           /\ pc[p] = "idle"
           /\ outcome[p] = "SubmissionError"
           /\ polled[p] = <<>>
           /\ extractions[p] = 0
           /\ written[p] = <<>>

\* a conflict was retried and the retry failed with another error
C11_ErrorAfterConflict ==
  \E p \in procs :
    /\ Replies(p) = <<"conflict", "error">>
    /\ outcome[p] = "SubmissionError"

\* every process is between invocations
AllIdle == \A p \in procs : pc[p] = "idle"

\* C12: with one process and invocations that all succeed, no item is
\* selected twice (the jobs, one per invocation, are for distinct guids, and
\* the rows of a selected item are those of the invocation itself), and once
\* as many invocations have ended as there are talks no item is pending.
C12_EachItemOnce ==
  /\ \A j1, j2 \in jobs : j1.guid = j2.guid => j1 = j2
  /\ \A p \in procs :
       pc[p] # "idle" => Cardinality(RowsOf(guid[p])) = Len(written[p])
  /\ (AllIdle /\ Cardinality(jobs) = Cardinality(talks)) =>
       /\ Pending = {}
       /\ {j.guid : j \in jobs} = {t.guid : t \in talks}

\* two invocations have ended and both talks are transcribed
C12_BothDone ==
  /\ AllIdle
  /\ Cardinality(jobs) = 2
  /\ \A p \in procs : outcome[p] = "ok"
  /\ RowsOf("g1") # {} /\ RowsOf("g2") # {}

\* C13: a guid has a row only if its media was staged and a job for it has
\* reached COMPLETED.
C13_RowNeedsCompletedJob ==
  \A g \in Guids :
    RowsOf(g) # {} =>
      /\ g \in audio
      /\ \E j \in jobs : j.guid = g /\ j.status = "COMPLETED"

\* rows were written by an invocation whose own job FAILED
C13_RowAfterFailedJob ==
  \E p \in procs : status[p] = "FAILED" /\ RowsOf(guid[p]) # {}

\* p takes a step of download_transcription while the document under its
\* key has no first transcript
ReadsMalformed(p) ==
  /\ Downloading(p)
  /\ extractions'[p] = extractions[p] + 1
  /\ \E o \in output : o.key = guid[p] /\ ~WellFormed(o.body)

\* C14: a download_transcription call that finds a document without a first
\* transcript raises and leaves the transcriptions table unchanged.
C14_MalformedWritesNothing ==
  [][\A p \in procs :
       ReadsMalformed(p) =>
         /\ transcriptions' = transcriptions
         /\ written'[p] = written[p]
         /\ pc'[p] = "idle"
         /\ outcome'[p] \in {"MalformedResult", "DownloadError"}]_vars

\* the first extraction of an invocation failed on a malformed document
C14_MalformedSeen ==
  \E p \in procs :
    /\ outcome[p] = "MalformedResult"
    /\ extractions[p] = 1
    /\ \E o \in output : o.key = guid[p] /\ ~WellFormed(o.body)

\* the reply to the last start_transcription_job call of p, "" if none
LastReply(p) ==
  IF submitted[p] = <<>> THEN "" ELSE Replies(p)[Len(submitted[p])]

\* C15: the stages of an invocation do not overlap and come in order: a
\* job is submitted only once the audio is staged, polled only once a
\* submission was accepted, and extraction starts only once
\* await_transcription_job has returned.
C15_StagesInOrder ==
  \A p \in procs :
    /\ submitted[p] # <<>> => guid[p] \in audio
    /\ polled[p] # <<>> => LastReply(p) = "ok"
    /\ extractions[p] > 0 => awaited[p] # NotReturned
    /\ pc[p] = "upload" =>
         submitted[p] = <<>> /\ polled[p] = <<>> /\ extractions[p] = 0
    /\ pc[p] = "transcribe" => polled[p] = <<>> /\ extractions[p] = 0
    /\ pc[p] = "await" => LastReply(p) = "ok" /\ extractions[p] = 0
    /\ Downloading(p) => awaited[p] # NotReturned

\* an invocation went through all four stages
C15_AllStagesDone ==
  \E p \in procs :
    /\ outcome[p] = "ok"
    /\ extractions[p] = 2
    /\ Len(polled[p]) >= 2
    /\ LastReply(p) = "ok"

\* C16: an invocation interrupted after its job was accepted and before a
\* row was written leaves its item without a row and pending; a conflict is
\* never the error an invocation ends with: after a conflict transcribe_talk
\* is still submitting, unless the process was stopped.
C16_InterruptedStaysPending ==
  \A p \in procs :
    /\ (outcome[p] = "interrupted" /\ LastReply(p) = "ok"
          /\ written[p] = <<>>) =>
         /\ RowsOf(guid[p]) = {}
         /\ guid[p] \in Pending
    /\ LastReply(p) = "conflict" =>
         /\ outcome[p] \in {"running", "interrupted"}
         /\ outcome[p] = "running" => pc[p] = "transcribe"

\* an invocation met the job an earlier invocation left for the same item,
\* took another name and ended with the item transcribed
C16_RecoveredAfterConflict ==
  \E p \in procs :
    /\ Len(submitted[p]) >= 2
    /\ Replies(p)[1] = "conflict"
    /\ \E j \in jobs : j.name = Names(p)[1] /\ j.guid = guid[p]
    /\ outcome[p] = "ok"
    /\ RowsOf(guid[p]) # {}
    /\ guid[p] \notin Pending

\* C17: against a finite set of taken names that does not grow, with
\* conflicts as the only errors, the loop of transcribe_talk ends for every
\* title that gives a name: a submission is accepted and its name returned.
C17_SubmissionTerminates ==
  \A p \in Procs :
    (pc[p] = "transcribe" /\ job_name[p] # <<>>)
      ~> (pc[p] = "await" /\ LastReply(p) = "ok"
            /\ job_name[p] = Names(p)[Len(submitted[p])])

\* a name was accepted after three conflicts
C17_AcceptedAfterConflicts ==
  \E p \in procs :
    /\ Replies(p) = <<"conflict", "conflict", "conflict", "ok">>
    /\ pc[p] = "await"

\* the job that p awaits has ended
JobEnded(p) ==
  /\ job_name[p] \in JobNames
  /\ JobNamed(job_name[p]).status \in Terminal

\* p is in the loop of await_transcription_job and the model lets it poll
Polling(p) == pc[p] = "await" /\ Len(polled[p]) < MaxPolls

\* C18: await_transcription_job returns once the job has ended, it has
\* returned only if the job has ended, and until then it goes on polling:
\* another poll is always possible and is made, as far as the model counts
\* polls.
C18_ReturnsIffJobEnds ==
  /\ \A p \in Procs : (Polling(p) /\ JobEnded(p)) ~> (awaited[p] # NotReturned)
  /\ [](\A p \in Procs : awaited[p] # NotReturned => JobEnded(p))
  /\ [](\A p \in Procs : Polling(p) => ENABLED Poll(p))
  /\ \A p \in Procs :
       (pc[p] = "await")
         ~> (awaited[p] # NotReturned \/ Len(polled[p]) >= MaxPolls)

\* four polls, none with a terminal status: the function has not returned
C18_StillPolling ==
  \E p \in procs :
    /\ Len(polled[p]) >= 4
    /\ \A k \in 1..Len(polled[p]) : Statuses(p)[k] \notin Terminal
    /\ pc[p] = "await"
    /\ awaited[p] = NotReturned

\* p makes a start_transcription_job call in this step
Calls(p) == Len(submitted'[p]) = Len(submitted[p]) + 1

\* C19: a call answered with a conflict creates no job, an accepted call
\* creates exactly one, for the item of the invocation and under the name
\* submitted; no call follows an accepted one in the same invocation, the
\* item of an invocation does not change, and jobs appear in no other way.
C19_OneJobPerRun ==
  [][/\ \A p \in procs :
          /\ (Calls(p) /\ LastReply(p)' = "conflict") => jobs' = jobs
          /\ (Calls(p) /\ LastReply(p)' = "ok") =>
               /\ \A k \in 1..Len(submitted[p]) : Replies(p)[k] # "ok"
               /\ jobs' = jobs \cup {[name |-> job_name[p], guid |-> guid[p],
                                      status |-> "SUBMITTED", reason |-> ""]}
               /\ Cardinality(jobs') = Cardinality(jobs) + 1
          /\ LastReply(p) = "ok" => submitted'[p] \in {submitted[p], <<>>}
          /\ guid'[p] # guid[p] => submitted'[p] = <<>>
     /\ Cardinality(jobs') # Cardinality(jobs) =>
          \E p \in procs : Calls(p) /\ LastReply(p)' = "ok"]_vars

\* the second invocation, for the other talk, met a conflict, and the
\* service holds one job per invocation
C19_TwoRunsTwoJobs ==
  \E p \in procs :
    /\ Replies(p) = <<"conflict", "ok">>
    /\ outcome[p] = "ok"
    /\ Cardinality(jobs) = 2
    /\ {j.guid : j \in jobs} = {"g1", "g2"}

\* C20: the selection query excludes nothing but transcribed talks: an idle
\* process can select any talk without a row, also one that another process
\* has selected and is working on.
C20_NoMutualExclusion ==
  \A p \in procs :
    \A t \in talks :
      (pc[p] = "idle" /\ Cardinality(jobs) < MaxJobs /\ RowsOf(t.guid) = {})
        => ENABLED Selects(p, t.guid)

\* both processes selected the same guid and each ran the whole pipeline
\* for it, with a job of its own
C20_BothRanSameGuid ==
  /\ guid[1] = guid[2]
  /\ guid[1] # "none"
  /\ outcome[1] = "ok" /\ outcome[2] = "ok"
  /\ LastReply(1) = "ok" /\ LastReply(2) = "ok"
  /\ job_name[1] # job_name[2]
  /\ Cardinality(RowsOf(guid[1])) = 4

====
